---- MODULE Spec2Model ----
(***************************************************************************)
(* Model of 002_duplicate_file_finder/duplicate_finder.py: the two-pass    *)
(* duplicate detection (find_duplicates), the report (display_duplicates)  *)
(* and the interactive deletion workflow (interactive_delete).             *)
(*                                                                         *)
(* A path is a number of Paths.  `fs` is the filesystem below the scanned  *)
(* directory: what each path holds now.  Python dicts keep insertion       *)
(* order, so a dict is a sequence of <<key, value>> records.               *)
(***************************************************************************)
EXTENDS Integers, Sequences, FiniteSets, TLC

\* ------------------------------------------------------------------ bounds
NumFiles == 4

Paths == 1..NumFiles

\* File contents: byte strings over {1, 2}; their length is the file size.
Contents == {<<1>>, <<2>>, <<1, 2>>}

\* The values given to --min-size and --hash.
MinSizes == {0, 2}
HashAlgos == {"md5", "sha256"}

\* Python's None where a number is expected (a size, a digest): no number of the model
None == 0 - 1

\* prev before any call has returned; report before display_duplicates has run
NoCall == [called |-> FALSE, result |-> <<>>]
NoReport == [printed |-> "nothing", total_sets |-> 0, total_files |-> 0, total_wasted |-> 0]

\* ------------------------------------------------------------- filesystem
Absent == [kind |-> "none", data |-> <<>>, readable |-> FALSE]
RegularFile(c, r) == [kind |-> "file", data |-> c, readable |-> r]
Directory == [kind |-> "dir", data |-> <<>>, readable |-> FALSE]

\* Path.is_file()
is_file(disk, p) == disk[p].kind = "file"

\* Path.stat().st_size / os.stat(p).st_size; None stands for OSError
st_size(disk, p) == IF disk[p].kind = "none" THEN None ELSE Len(disk[p].data)

\* ------------------------------------------------------------ dict helpers
Keys(d) == {d[i].key : i \in 1..Len(d)}

Lookup(d, k) == (CHOOSE i \in 1..Len(d) : d[i].key = k)

\* Faulty variant of DictAppend: the key is ignored once the dict has an entry.
DictAppendAnyKey(d, k, v) ==
    IF d # <<>>
    THEN [d EXCEPT ![1].files = Append(@, v)]
    ELSE Append(d, [key |-> k, files |-> <<v>>])

\* Faulty variant of DictAppend: a value joins the last entry when that has
\* its key, and starts a new entry otherwise.
DictAppendAdjacent(d, k, v) ==
    IF d # <<>> /\ d[Len(d)].key = k
    THEN [d EXCEPT ![Len(d)].files = Append(@, v)]
    ELSE Append(d, [key |-> k, files |-> <<v>>])

\* defaultdict(list): d[k].append(v)
DictAppend(d, k, v) ==
    IF k \in Keys(d)
    THEN [d EXCEPT ![Lookup(d, k)].files = Append(@, v)]
    ELSE Append(d, [key |-> k, files |-> <<v>>])

Range(s) == {s[i] : i \in 1..Len(s)}

\* ---------------------------------------------------------- get_file_hash
chunk_size == 8192

\* hashlib.md5() / hashlib.sha256(): the initial state of the running hash
NewHash(hash_algo) == IF hash_algo = "md5" THEN 1 ELSE 2

\* Faulty variant of HashUpdate: the chunk is never folded into the state.
HashUpdateNothing(h, chunk) == h

\* hash_func.update(chunk): fold the bytes of one chunk into the state
RECURSIVE HashUpdate(_, _)
HashUpdate(h, chunk) ==
    IF chunk = <<>> THEN h ELSE HashUpdate(3 * h + Head(chunk), Tail(chunk))

\* f.read(chunk_size) on what is left of the file
ReadChunk(rest) == SubSeq(rest, 1, IF Len(rest) < chunk_size THEN Len(rest) ELSE chunk_size)

\* while chunk := f.read(chunk_size): hash_func.update(chunk)
RECURSIVE HashLoop(_, _)
HashLoop(h, rest) ==
    LET chunk == ReadChunk(rest)
    IN IF chunk = <<>> THEN h
       ELSE HashLoop(HashUpdate(h, chunk), SubSeq(rest, Len(chunk) + 1, Len(rest)))

\* Faulty variant of get_file_hash: the error is swallowed and the digest of
\* what was read before it (nothing) is returned.
get_file_hash_no_except(disk, p, hash_algo) ==
    IF disk[p].kind = "file" /\ disk[p].readable
    THEN HashLoop(NewHash(hash_algo), disk[p].data)
    ELSE NewHash(hash_algo)

\* get_file_hash(filepath, hash_algo): the digest, or None when open/read fails
get_file_hash(disk, p, hash_algo) ==
    IF disk[p].kind = "file" /\ disk[p].readable
    THEN HashLoop(NewHash(hash_algo), disk[p].data)
    ELSE None

\* get_file_info(filepath)['size']: 0 when os.stat fails
get_file_info_size(disk, p) ==
    IF st_size(disk, p) = None THEN 0 ELSE st_size(disk, p)

\* --------------------------------------------------------------- state
VARIABLES
    pc,              \* where the program is
    args,            \* the parsed command line (main, lines 265-272)
    fs,              \* the filesystem now: what each path holds
    hidden,          \* the paths whose file name begins with '.'
    listing,         \* the order in which directory.glob yields the entries
    scanPos,         \* find_duplicates: position of the first loop in listing
    size_map,        \* find_duplicates: size -> paths
    file_count,      \* find_duplicates: files put in size_map
    hash_map,        \* find_duplicates: digest -> paths
    hashPos,         \* find_duplicates: position of the second loop
    hashed,          \* find_duplicates: files hashed so far
    io,              \* history: the stat and read calls of find_duplicates
    duplicates,      \* what find_duplicates returned (digest -> paths)
    prev,            \* what the previous call of find_duplicates returned
    scanned,         \* history: fs as it was when the scan started
    report,          \* display_duplicates: the totals it printed
    idx,             \* interactive_delete: number of the set being handled
    choice,          \* interactive_delete: the answer to the choice prompt
    keep_idx,        \* interactive_delete: int(choice) - 1
    confirm,         \* interactive_delete: the answer to the confirmation prompt
    files_to_delete, \* interactive_delete: the delete list of the set
    delPos,          \* interactive_delete: position in files_to_delete
    attempts,        \* history: the os.remove calls made, in order
    shown,           \* history: the sets presented, in order
    msg              \* the last line the program printed

scanVars == <<listing, scanPos, size_map, file_count, hash_map, hashPos, hashed, io>>
flowVars == <<idx, choice, keep_idx, confirm, files_to_delete, delPos, attempts, shown>>
vars == <<pc, hidden, args, fs, duplicates, prev, scanned, report, msg, scanVars, flowVars>>

\* ------------------------------------------------------- find_duplicates
\* Faulty variant of HashQueue: the files of every size are hashed.
RECURSIVE HashQueueAll(_)
HashQueueAll(sm) ==
    IF sm = <<>> THEN <<>> ELSE Head(sm).files \o HashQueueAll(Tail(sm))

\* The entries of size_map with more than one file, flattened in dict order:
\* the files the second pass hashes, in the order it hashes them.
RECURSIVE HashQueue(_)
HashQueue(sm) ==
    IF sm = <<>> THEN <<>>
    ELSE (IF Len(Head(sm).files) > 1 THEN Head(sm).files ELSE <<>>)
         \o HashQueue(Tail(sm))

\* sum(len(files) for files in size_map.values() if len(files) > 1)
files_to_hash(sm) == Len(HashQueue(sm))

\* Faulty variant of FilterDuplicates: the first file of a group is taken for the
\* original and left out of the set.
RECURSIVE FilterDuplicatesDropFirst(_)
FilterDuplicatesDropFirst(hm) ==
    IF hm = <<>> THEN <<>>
    ELSE (IF Len(Head(hm).files) > 1
          THEN <<[key |-> Head(hm).key, files |-> Tail(Head(hm).files)]>>
          ELSE <<>>)
         \o FilterDuplicatesDropFirst(Tail(hm))

\* {h: files for h, files in hash_map.items() if len(files) > 1}
RECURSIVE FilterDuplicates(_)
FilterDuplicates(hm) ==
    IF hm = <<>> THEN <<>>
    ELSE (IF Len(Head(hm).files) > 1 THEN <<Head(hm)>> ELSE <<>>)
         \o FilterDuplicates(Tail(hm))

\* Faulty variant of SizePassStep: a file of exactly min_size is left out.
SizePassStepAboveMin(disk, sm, p, min_size) ==
    IF is_file(disk, p) /\ st_size(disk, p) # None /\ st_size(disk, p) > min_size
    THEN DictAppend(sm, st_size(disk, p), p)
    ELSE sm

\* One turn of the first loop: the size_map after looking at path p.
SizePassStep(disk, sm, p, min_size) ==
    IF is_file(disk, p) /\ st_size(disk, p) # None /\ st_size(disk, p) >= min_size
    THEN DictAppend(sm, st_size(disk, p), p)
    ELSE sm

\* One turn of the second loop: the hash_map after hashing path p.
HashPassStep(disk, hm, p, hash_algo) ==
    IF get_file_hash(disk, p, hash_algo) # None
    THEN DictAppend(hm, get_file_hash(disk, p, hash_algo), p)
    ELSE hm

\* lines 69-80: resolve the directory, refuse a missing one or a non-directory
FindDuplicatesEnter ==
    /\ pc = "find_duplicates"
    /\ IF args.directory # "dir"
       THEN /\ pc' = "returned"
            /\ duplicates' = <<>>
            /\ msg' = "Error: directory"
            /\ UNCHANGED <<scanned, scanPos, size_map, file_count>>
       ELSE /\ pc' = "size_pass"
            /\ scanned' = fs
            /\ scanPos' = 1
            /\ size_map' = <<>>
            /\ file_count' = 0
            /\ msg' = "Scanning directory"
            /\ UNCHANGED duplicates
    /\ io' = <<>>
    /\ UNCHANGED <<hidden, args, fs, prev, report, listing, hash_map, hashPos, hashed, flowVars>>

\* lines 87-95: one entry of the glob
SizePassFile ==
    /\ pc = "size_pass"
    /\ scanPos <= Len(listing)
    /\ LET p == listing[scanPos]
           sm == SizePassStep(fs, size_map, p, args.min_size)
       IN /\ size_map' = sm
          /\ file_count' = IF sm # size_map THEN file_count + 1 ELSE file_count
          /\ io' = IF is_file(fs, p) THEN Append(io, [op |-> "stat", path |-> p])
                   ELSE io
    /\ scanPos' = scanPos + 1
    /\ UNCHANGED <<pc, hidden, args, fs, duplicates, prev, scanned, report, msg,
                   listing, hash_map, hashPos, hashed, flowVars>>

\* lines 97-107: the glob is exhausted; nothing to hash returns {}
SizePassDone ==
    /\ pc = "size_pass"
    /\ scanPos > Len(listing)
    /\ IF files_to_hash(size_map) = 0
       THEN /\ pc' = "returned"
            /\ duplicates' = <<>>
            /\ msg' = "No potential duplicates found"
            /\ size_map' = <<>>
            /\ file_count' = 0
            /\ scanPos' = 0
            /\ UNCHANGED <<hash_map, hashPos, hashed>>
       ELSE /\ pc' = "hash_pass"
            /\ hash_map' = <<>>
            /\ hashPos' = 1
            /\ hashed' = 0
            /\ msg' = "Hashing potential duplicates"
            /\ UNCHANGED <<duplicates, size_map, file_count, scanPos>>
    /\ UNCHANGED <<hidden, args, fs, prev, scanned, report, listing, io, flowVars>>

\* lines 110-118: one file of a size bucket with more than one file
HashPassFile ==
    /\ pc = "hash_pass"
    /\ hashPos <= Len(HashQueue(size_map))
    /\ LET p == HashQueue(size_map)[hashPos]
           hm == HashPassStep(fs, hash_map, p, args.hash)
       IN /\ hash_map' = hm
          /\ hashed' = IF hm # hash_map THEN hashed + 1 ELSE hashed
          /\ msg' = IF hm # hash_map THEN msg ELSE "Error reading"
          /\ io' = Append(io, [op |-> "read", path |-> p])
    /\ hashPos' = hashPos + 1
    /\ UNCHANGED <<pc, hidden, args, fs, duplicates, prev, scanned, report,
                   listing, scanPos, size_map, file_count, flowVars>>

\* lines 120-123: keep the digests with more than one file and return them
HashPassDone ==
    /\ pc = "hash_pass"
    /\ hashPos > Len(HashQueue(size_map))
    /\ duplicates' = FilterDuplicates(hash_map)
    /\ pc' = "returned"
    /\ size_map' = <<>>
    /\ file_count' = 0
    /\ scanPos' = 0
    /\ hash_map' = <<>>
    /\ hashPos' = 0
    /\ hashed' = 0
    /\ UNCHANGED <<hidden, args, fs, prev, scanned, report, msg, listing, io, flowVars>>

\* The second call of find_duplicates with the same arguments, the tree as it
\* is; the glob may yield the entries in another order.
GlobOrders == {f \in [Paths -> Paths] : Range(f) = Paths}

FindDuplicatesAgain ==
    /\ pc = "returned"
    /\ ~prev.called
    /\ prev' = [called |-> TRUE, result |-> duplicates]
    /\ listing' \in GlobOrders
    /\ pc' = "find_duplicates"
    /\ UNCHANGED <<hidden, args, fs, duplicates, scanned, report, msg, scanPos, size_map,
                   file_count, hash_map, hashPos, hashed, io, flowVars>>

\* ----------------------------------------------------- display_duplicates
\* lines 139-143: total_wasted, the size of each set's first file as os.stat
\* gives it now, times the other copies
RECURSIVE WastedSpace(_, _)
WastedSpace(disk, dups) ==
    IF dups = <<>> THEN 0
    ELSE get_file_info_size(disk, Head(dups).files[1]) * (Len(Head(dups).files) - 1)
         + WastedSpace(disk, Tail(dups))

\* sum(len(files) for files in duplicates.values())
RECURSIVE TotalFiles(_)
TotalFiles(dups) ==
    IF dups = <<>> THEN 0 ELSE Len(Head(dups).files) + TotalFiles(Tail(dups))

\* lines 125-161, called by main at line 274
DisplayDuplicates ==
    /\ pc = "returned"
    /\ pc' = "displayed"
    /\ IF duplicates = <<>>
       THEN /\ report' = [NoReport EXCEPT !.printed = "no duplicates"]
            /\ msg' = "No duplicate files found!"
       ELSE /\ report' = [printed |-> "totals",
                          total_sets |-> Len(duplicates),
                          total_files |-> TotalFiles(duplicates),
                          total_wasted |-> WastedSpace(fs, duplicates)]
            /\ msg' = "Total wasted space"
    /\ UNCHANGED <<hidden, args, fs, duplicates, prev, scanned, scanVars, flowVars>>

\* ------------------------------------------------------------------ main
\* lines 276-277: if args.delete and duplicates: interactive_delete(duplicates)
MainAfterReport ==
    /\ pc = "displayed"
    /\ pc' = IF args.delete /\ duplicates # <<>> THEN "interactive_delete" ELSE "exit"
    /\ UNCHANGED <<hidden, args, fs, duplicates, prev, scanned, report, msg, scanVars,
                   flowVars>>

\* ----------------------------------------------------- interactive_delete
\* The lines a user may type at the two prompts.
Numerals == {ToString(k) : k \in (0 - 1)..(NumFiles + 1)}
ChoiceLines == Numerals \cup {" 1 ", "q", " Q", "s", "S ", "x", "", "y"}
ConfirmLines == {"y", " Y ", "n", "N", "", "q", "s", "yes", "1"}

\* input(...).strip().lower()
StripLower(line) ==
    CASE line = " 1 " -> "1"
      [] line = " Q" -> "q"
      [] line = "S " -> "s"
      [] line = " Y " -> "y"
      [] line = "N" -> "n"
      [] OTHER -> line

\* int(choice): whether it raises ValueError, and its value when it does not
IsInt(tok) == tok \in Numerals
IntOf(tok) == CHOOSE k \in (0 - 1)..(NumFiles + 1) : ToString(k) = tok

\* Faulty variant of ValidKeep: the upper end of the range is off by one.
ValidKeepOffByOne(k, filepaths) == 0 <= k /\ k <= Len(filepaths)

\* line 193: 0 <= keep_idx < len(filepaths)
ValidKeep(k, filepaths) == 0 <= k /\ k < Len(filepaths)

\* Python's enumerate(filepaths) filtered on the index; indexes start at 0
RECURSIVE KeepWhereIndexIsNot(_, _, _)
KeepWhereIndexIsNot(filepaths, i, k) ==
    IF filepaths = <<>> THEN <<>>
    ELSE (IF i # k THEN <<Head(filepaths)>> ELSE <<>>)
         \o KeepWhereIndexIsNot(Tail(filepaths), i + 1, k)

\* Faulty variant of FilesToDelete: the 0-based keep_idx is compared with 1-based
\* indexes.
FilesToDeleteOneBased(filepaths, k) == KeepWhereIndexIsNot(filepaths, 1, k)

\* Faulty variant of FilesToDelete: the kept file is not taken off the list.
FilesToDeleteAll(filepaths, k) == filepaths

\* line 194: [f for i, f in enumerate(filepaths) if i != keep_idx]
FilesToDelete(filepaths, k) == KeepWhereIndexIsNot(filepaths, 0, k)

\* Faulty variant of Affirmative: everything but an explicit no confirms.
AffirmativeUnlessNo(answer) == answer # "n"

\* line 201: confirm == 'y'
Affirmative(answer) == answer = "y"

\* The for loop of line 171 goes to the next set, or ends and the function
\* returns.
Advance ==
    IF idx < Len(duplicates)
    THEN pc' = "present" /\ idx' = idx + 1
    ELSE pc' = "completed" /\ idx' = idx

\* lines 165-169: nothing to do for an empty dict
InteractiveDeleteEnter ==
    /\ pc = "interactive_delete"
    /\ IF duplicates = <<>>
       THEN pc' = "completed" /\ UNCHANGED <<idx, msg>>
       ELSE pc' = "present" /\ idx' = 1 /\ msg' = "Interactive Deletion Mode"
    /\ UNCHANGED <<hidden, args, fs, duplicates, prev, scanned, report, scanVars,
                   choice, keep_idx, confirm, files_to_delete, delPos, attempts, shown>>

\* lines 172-178: print the set and its members
PresentSet ==
    /\ pc = "present"
    /\ shown' = Append(shown, idx)
    /\ msg' = "Set"
    /\ pc' = "choice"
    /\ UNCHANGED <<hidden, args, fs, duplicates, prev, scanned, report, scanVars,
                   idx, choice, keep_idx, confirm, files_to_delete, delPos, attempts>>

\* Faulty variant of ChooseQuit: 'q' breaks out of the prompt loop, as 's' does.
ChooseQuitBreaks ==
    /\ pc = "choice"
    /\ \E line \in ChoiceLines :
           /\ StripLower(line) = "q"
           /\ choice' = StripLower(line)
    /\ msg' = "Deletion cancelled."
    /\ Advance
    /\ UNCHANGED <<hidden, args, fs, duplicates, prev, scanned, report, scanVars,
                   keep_idx, confirm, files_to_delete, delPos, attempts, shown>>

\* lines 181-185: 'q' returns from the function
ChooseQuit ==
    /\ pc = "choice"
    /\ \E line \in ChoiceLines :
           /\ StripLower(line) = "q"
           /\ choice' = StripLower(line)
    /\ msg' = "Deletion cancelled."
    /\ pc' = "aborted"
    /\ UNCHANGED <<hidden, args, fs, duplicates, prev, scanned, report, scanVars,
                   idx, keep_idx, confirm, files_to_delete, delPos, attempts, shown>>

\* Faulty variant of ChooseSkip: 's' returns from the function, as 'q' does.
ChooseSkipReturns ==
    /\ pc = "choice"
    /\ \E line \in ChoiceLines :
           /\ StripLower(line) = "s"
           /\ choice' = StripLower(line)
    /\ msg' = "Skipping this set."
    /\ pc' = "aborted"
    /\ UNCHANGED <<hidden, args, fs, duplicates, prev, scanned, report, scanVars,
                   idx, keep_idx, confirm, files_to_delete, delPos, attempts, shown>>

\* lines 187-189: 's' breaks out of the prompt loop
ChooseSkip ==
    /\ pc = "choice"
    /\ \E line \in ChoiceLines :
           /\ StripLower(line) = "s"
           /\ choice' = StripLower(line)
    /\ msg' = "Skipping this set."
    /\ Advance
    /\ UNCHANGED <<hidden, args, fs, duplicates, prev, scanned, report, scanVars,
                   keep_idx, confirm, files_to_delete, delPos, attempts, shown>>

\* lines 191-198: a number in range makes the delete list and asks to confirm
ChooseKeep ==
    /\ pc = "choice"
    /\ \E line \in ChoiceLines :
           /\ StripLower(line) \notin {"q", "s"}
           /\ IsInt(StripLower(line))
           /\ ValidKeep(IntOf(StripLower(line)) - 1, duplicates[idx].files)
           /\ choice' = StripLower(line)
           /\ keep_idx' = IntOf(StripLower(line)) - 1
           /\ files_to_delete' =
                  FilesToDelete(duplicates[idx].files, IntOf(StripLower(line)) - 1)
    /\ msg' = "Will delete"
    /\ pc' = "confirm"
    /\ UNCHANGED <<hidden, args, fs, duplicates, prev, scanned, report, scanVars,
                   idx, confirm, delPos, attempts, shown>>

\* lines 211-214: a number out of range, or no number: the while loop asks again
ChooseInvalid ==
    /\ pc = "choice"
    /\ \E line \in ChoiceLines :
           /\ StripLower(line) \notin {"q", "s"}
           /\ choice' = StripLower(line)
           /\ IF IsInt(StripLower(line))
              THEN /\ ~ValidKeep(IntOf(StripLower(line)) - 1, duplicates[idx].files)
                   /\ keep_idx' = IntOf(StripLower(line)) - 1
                   /\ msg' = "Invalid choice."
              ELSE /\ keep_idx' = keep_idx
                   /\ msg' = "Invalid input."
    /\ UNCHANGED <<pc, hidden, args, fs, duplicates, prev, scanned, report, scanVars,
                   idx, confirm, files_to_delete, delPos, attempts, shown>>

\* lines 200-201: 'y' starts the deletions
ConfirmYes ==
    /\ pc = "confirm"
    /\ \E line \in ConfirmLines :
           /\ Affirmative(StripLower(line))
           /\ confirm' = StripLower(line)
    /\ pc' = "deleting"
    /\ delPos' = 1
    /\ UNCHANGED <<hidden, args, fs, duplicates, prev, scanned, report, msg, scanVars,
                   idx, choice, keep_idx, files_to_delete, attempts, shown>>

\* Faulty variant of ConfirmNo: the choice prompt of the same set is shown
\* again.
ConfirmNoAsksAgain ==
    /\ pc = "confirm"
    /\ \E line \in ConfirmLines :
           /\ ~Affirmative(StripLower(line))
           /\ confirm' = StripLower(line)
    /\ msg' = "Deletion cancelled for this set."
    /\ pc' = "choice"
    /\ UNCHANGED <<hidden, args, fs, duplicates, prev, scanned, report, scanVars,
                   idx, choice, keep_idx, files_to_delete, delPos, attempts, shown>>

\* lines 208-210: any other answer leaves the set alone
ConfirmNo ==
    /\ pc = "confirm"
    /\ \E line \in ConfirmLines :
           /\ ~Affirmative(StripLower(line))
           /\ confirm' = StripLower(line)
    /\ msg' = "Deletion cancelled for this set."
    /\ Advance
    /\ UNCHANGED <<hidden, args, fs, duplicates, prev, scanned, report, scanVars,
                   choice, keep_idx, files_to_delete, delPos, attempts, shown>>

\* os.remove(f): it can succeed when f is a file that is there, and it can
\* raise OSError whatever f is (permission denied, already removed).
RemoveOutcomes(disk, f) == IF disk[f].kind = "file" THEN {TRUE, FALSE} ELSE {FALSE}

\* Faulty variant of DeleteFile: a file that was removed is also taken out of
\* the set it was a member of.
DeleteFileForgetsMember ==
    /\ pc = "deleting"
    /\ delPos <= Len(files_to_delete)
    /\ LET f == files_to_delete[delPos]
       IN \E ok \in RemoveOutcomes(fs, f) :
              /\ fs' = IF ok THEN [fs EXCEPT ![f] = Absent] ELSE fs
              /\ duplicates' =
                     IF ok
                     THEN [duplicates EXCEPT
                              ![idx].files = SelectSeq(@, LAMBDA x : x # f)]
                     ELSE duplicates
              /\ attempts' = Append(attempts, [set |-> idx, path |-> f, ok |-> ok])
              /\ msg' = IF ok THEN "Deleted" ELSE "Error deleting"
    /\ delPos' = delPos + 1
    /\ UNCHANGED <<pc, hidden, args, prev, scanned, report, scanVars,
                   idx, choice, keep_idx, confirm, files_to_delete, shown>>

\* Faulty variant of DeleteFile: OSError is not caught inside the loop, so the first
\* failure ends the delete list.
DeleteFileStopsOnError ==
    /\ pc = "deleting"
    /\ delPos <= Len(files_to_delete)
    /\ LET f == files_to_delete[delPos]
       IN \E ok \in RemoveOutcomes(fs, f) :
              /\ fs' = IF ok THEN [fs EXCEPT ![f] = Absent] ELSE fs
              /\ attempts' = Append(attempts, [set |-> idx, path |-> f, ok |-> ok])
              /\ msg' = IF ok THEN "Deleted" ELSE "Error deleting"
              /\ delPos' = IF ok THEN delPos + 1 ELSE Len(files_to_delete) + 1
    /\ UNCHANGED <<pc, hidden, args, duplicates, prev, scanned, report, scanVars,
                   idx, choice, keep_idx, confirm, files_to_delete, shown>>

\* lines 202-207: one file of the delete list
DeleteFile ==
    /\ pc = "deleting"
    /\ delPos <= Len(files_to_delete)
    /\ LET f == files_to_delete[delPos]
       IN \E ok \in RemoveOutcomes(fs, f) :
              /\ fs' = IF ok THEN [fs EXCEPT ![f] = Absent] ELSE fs
              /\ attempts' = Append(attempts, [set |-> idx, path |-> f, ok |-> ok])
              /\ msg' = IF ok THEN "Deleted" ELSE "Error deleting"
    /\ delPos' = delPos + 1
    /\ UNCHANGED <<pc, hidden, args, duplicates, prev, scanned, report, scanVars,
                   idx, choice, keep_idx, confirm, files_to_delete, shown>>

\* line 210: the delete list is done; break out of the prompt loop
DeleteDone ==
    /\ pc = "deleting"
    /\ delPos > Len(files_to_delete)
    /\ Advance
    /\ UNCHANGED <<hidden, args, fs, duplicates, prev, scanned, report, msg, scanVars,
                   choice, keep_idx, confirm, files_to_delete, delPos, attempts, shown>>

\* ------------------------------------------------------ the world outside
\* Another process removes a file after the scan.
EnvRemove ==
    /\ pc = "returned"
    /\ \E p \in Paths :
           /\ fs[p].kind = "file"
           /\ fs' = [fs EXCEPT ![p] = Absent]
    /\ UNCHANGED <<pc, hidden, args, duplicates, prev, scanned, report, msg, scanVars, flowVars>>

\* Another process rewrites a file after the scan.
EnvWrite ==
    /\ pc = "returned"
    /\ \E p \in Paths, c \in Contents :
           /\ fs[p].kind = "file"
           /\ fs[p].data # c
           /\ fs' = [fs EXCEPT ![p].data = c]
    /\ UNCHANGED <<pc, hidden, args, duplicates, prev, scanned, report, msg, scanVars, flowVars>>

\* ------------------------------------------------------------- initial states
PlainEntries == {RegularFile(c, TRUE) : c \in Contents}
Entries == PlainEntries \cup {RegularFile(<<1>>, FALSE), RegularFile(<<1, 2>>, FALSE), Directory}

Identity == [i \in Paths |-> i]

Idle ==
    /\ listing = Identity
    /\ scanPos = 0
    /\ size_map = <<>>
    /\ file_count = 0
    /\ hash_map = <<>>
    /\ hashPos = 0
    /\ hashed = 0
    /\ io = <<>>
    /\ prev = NoCall
    /\ report = NoReport
    /\ idx = 0
    /\ choice = ""
    /\ keep_idx = 0
    /\ confirm = ""
    /\ files_to_delete = <<>>
    /\ delPos = 0
    /\ attempts = <<>>
    /\ shown = <<>>
    /\ msg = ""

\* find_duplicates called once on any tree with any arguments
InitScan ==
    /\ pc = "find_duplicates"
    /\ args \in [directory : {"dir", "missing", "file"}, min_size : MinSizes,
                 hash : HashAlgos, delete : {FALSE}]
    /\ fs \in [Paths -> Entries]
    /\ hidden = {}
    /\ scanned = fs
    /\ duplicates = <<>>
    /\ Idle

NextScan ==
    \/ FindDuplicatesEnter
    \/ SizePassFile
    \/ SizePassDone
    \/ HashPassFile
    \/ HashPassDone

SpecScan == InitScan /\ [][NextScan]_vars

\* find_duplicates called twice on a tree of readable files
InitRescan ==
    /\ pc = "find_duplicates"
    /\ args \in [directory : {"dir"}, min_size : MinSizes, hash : {"md5"},
                 delete : {FALSE}]
    /\ fs \in [Paths -> PlainEntries]
    /\ hidden = {}
    /\ scanned = fs
    /\ duplicates = <<>>
    /\ Idle

NextRescan ==
    \/ FindDuplicatesEnter
    \/ SizePassFile
    \/ SizePassDone
    \/ HashPassFile
    \/ HashPassDone
    \/ FindDuplicatesAgain

SpecRescan == InitRescan /\ [][NextRescan]_vars

\* main up to the report, on a tree of readable files that other processes
\* may change once it is scanned
InitReport ==
    /\ pc = "find_duplicates"
    /\ args \in [directory : {"dir"}, min_size : MinSizes, hash : {"md5"},
                 delete : {FALSE}]
    /\ fs \in [Paths -> PlainEntries]
    /\ hidden = {}
    /\ scanned = fs
    /\ duplicates = <<>>
    /\ Idle

NextReport ==
    \/ FindDuplicatesEnter
    \/ SizePassFile
    \/ SizePassDone
    \/ HashPassFile
    \/ HashPassDone
    \/ EnvRemove
    \/ EnvWrite
    \/ DisplayDuplicates

SpecReport == InitReport /\ [][NextReport]_vars

\* find_duplicates called once on a tree of readable files and directories,
\* any of which may have a name that begins with '.'
InitHidden ==
    /\ pc = "find_duplicates"
    /\ args \in [directory : {"dir"}, min_size : {0}, hash : {"md5"}, delete : {FALSE}]
    /\ fs \in [Paths -> PlainEntries \cup {Directory}]
    /\ hidden \in SUBSET Paths
    /\ scanned = fs
    /\ duplicates = <<>>
    /\ Idle

NextHidden ==
    \/ FindDuplicatesEnter
    \/ SizePassFile
    \/ SizePassDone
    \/ HashPassFile
    \/ HashPassDone

SpecHidden == InitHidden /\ [][NextHidden]_vars

\* main from the parsed command line to its end, on a tree of readable files
InitMain ==
    /\ pc = "find_duplicates"
    /\ args \in [directory : {"dir", "missing", "file"}, min_size : {0},
                 hash : {"md5"}, delete : BOOLEAN]
    /\ fs \in [Paths -> PlainEntries]
    /\ hidden = {}
    /\ scanned = fs
    /\ duplicates = <<>>
    /\ Idle

NextMain ==
    \/ FindDuplicatesEnter
    \/ SizePassFile
    \/ SizePassDone
    \/ HashPassFile
    \/ HashPassDone
    \/ DisplayDuplicates
    \/ MainAfterReport
    \/ InteractiveDeleteEnter
    \/ PresentSet
    \/ ChooseQuit
    \/ ChooseSkip
    \/ ChooseKeep
    \/ ChooseInvalid
    \/ ConfirmYes
    \/ ConfirmNo
    \/ DeleteFile
    \/ DeleteDone

SpecMain == InitMain /\ [][NextMain]_vars

\* The dicts find_duplicates can return: a sequence of sets of 2 or more
\* paths, no path twice, each set under the digest of its own content.
ContentOrder == <<<<1>>, <<2>>, <<1, 2>>>>

RECURSIVE Compositions(_)
Compositions(m) ==
    IF m = 0 THEN {<<>>}
    ELSE UNION {{<<k>> \o c : c \in Compositions(m - k)} : k \in 2..m}

RECURSIVE Split(_, _, _)
Split(paths, sizes, i) ==
    IF sizes = <<>> THEN <<>>
    ELSE <<[key |-> HashLoop(NewHash("md5"), ContentOrder[i]),
            files |-> SubSeq(paths, 1, Head(sizes))]>>
         \o Split(SubSeq(paths, Head(sizes) + 1, Len(paths)), Tail(sizes), i + 1)

Arrangements ==
    UNION {{f \in [1..m -> Paths] : \A i, j \in 1..m : f[i] = f[j] => i = j} :
           m \in 0..NumFiles}

DupDicts ==
    UNION {{Split(a, c, 1) :
               c \in {x \in Compositions(Len(a)) : Len(x) <= Len(ContentOrder)}} :
           a \in Arrangements}

\* The tree such a dict was found in: the members of a set hold its content.
TreeOf(dups) ==
    [p \in Paths |->
        IF p \in UNION {Range(dups[i].files) : i \in 1..Len(dups)}
        THEN RegularFile(ContentOrder[CHOOSE i \in 1..Len(dups) :
                                          p \in Range(dups[i].files)], TRUE)
        ELSE Absent]

\* interactive_delete called on any such dict
InitDelete ==
    /\ pc = "interactive_delete"
    /\ args = [directory |-> "dir", min_size |-> 0, hash |-> "md5", delete |-> TRUE]
    /\ duplicates \in DupDicts
    /\ fs = TreeOf(duplicates)
    /\ hidden = {}
    /\ scanned = fs
    /\ Idle

NextDelete ==
    \/ InteractiveDeleteEnter
    \/ PresentSet
    \/ ChooseQuit
    \/ ChooseSkip
    \/ ChooseKeep
    \/ ChooseInvalid
    \/ ConfirmYes
    \/ ConfirmNo
    \/ DeleteFile
    \/ DeleteDone

SpecDelete == InitDelete /\ [][NextDelete]_vars

\* The steps of interactive_delete but the one that asks again after an
\* input that is not valid.
ValidStep ==
    \/ InteractiveDeleteEnter
    \/ PresentSet
    \/ ChooseQuit
    \/ ChooseSkip
    \/ ChooseKeep
    \/ ConfirmYes
    \/ ConfirmNo
    \/ DeleteFile
    \/ DeleteDone

\* interactive_delete with an interpreter that goes on running, calls that
\* return, and a user who does not type invalid choices for ever.
SpecDeleteFair == InitDelete /\ [][NextDelete]_vars /\ WF_vars(ValidStep)

\* ------------------------------------------------------------ the claims
\* ---- interactive_delete
\* The paths os.remove was called on for set j, in call order.
RECURSIVE PathsAttempted(_, _)
PathsAttempted(log, j) ==
    IF log = <<>> THEN <<>>
    ELSE (IF Head(log).set = j THEN <<Head(log).path>> ELSE <<>>)
         \o PathsAttempted(Tail(log), j)

\* The sequence s without its i-th element (i counted from 1).
AllBut(s, i) == [j \in 1..(Len(s) - 1) |-> IF j < i THEN s[j] ELSE s[j + 1]]

\* The step leaves the current set for the next one, or ends the session
\* after the last one.
NextSetOrEnd ==
    \/ idx < Len(duplicates) /\ pc' = "present" /\ idx' = idx + 1
    \/ idx = Len(duplicates) /\ pc' = "completed" /\ idx' = idx

\* The delete list of the current set has been gone through.
DeleteListDone == pc = "deleting" /\ delPos > Len(files_to_delete)

\* C1: keeping member i of a set of n members and confirming with yes makes
\* exactly n - 1 delete attempts: the other members, in the set's order, and
\* none for member i.
C1_KeepDeletesTheOthers ==
    DeleteListDone =>
        LET members == duplicates[idx].files
            i == IntOf(choice)
            tried == PathsAttempted(attempts, idx)
        IN /\ confirm = "y"
           /\ i \in 1..Len(members)
           /\ Len(tried) = Len(members) - 1
           /\ tried = AllBut(members, i)
           /\ members[i] \notin Range(tried)

\* C1 witness: member 1 of a 3-member set was kept and 2 deletes were made.
C1_Witness ==
    /\ DeleteListDone
    /\ Len(duplicates[idx].files) = 3
    /\ choice = "1"
    /\ Len(PathsAttempted(attempts, idx)) = 2

\* C2: an answer to the confirmation prompt that is not the affirmative one
\* (the empty line and 'q' too) makes no delete attempt for the set, does not
\* prompt for it again and does not end the session: the next set is next.
C2_OnlyYesConfirms ==
    [][(pc = "confirm" /\ confirm' # "y") =>
           /\ attempts' = attempts
           /\ PathsAttempted(attempts', idx) = <<>>
           /\ fs' = fs
           /\ shown' = shown
           /\ NextSetOrEnd]_vars

\* C2 witness: 'q' was typed at the confirmation prompt of set 1; nothing
\* was deleted and set 2 is about to be presented.
C2_Witness ==
    /\ pc = "present"
    /\ idx = 2
    /\ confirm = "q"
    /\ attempts = <<>>
    /\ fs = scanned

\* C3: skip at the choice prompt makes no delete attempt for the set, asks
\* for no confirmation, leaves the filesystem alone and goes to the next set.
C3_SkipLeavesSetAlone ==
    [][(pc = "choice" /\ choice' = "s") =>
           /\ attempts' = attempts
           /\ PathsAttempted(attempts', idx) = <<>>
           /\ fs' = fs
           /\ confirm' = confirm
           /\ pc' # "confirm"
           /\ NextSetOrEnd]_vars

\* C3 witness: set 1 was skipped and set 2 is about to be presented.
C3_Witness ==
    /\ pc = "present"
    /\ idx = 2
    /\ choice = "s"
    /\ confirm = ""
    /\ attempts = <<>>
    /\ fs = scanned

\* What holds of a session that was aborted at set idx: the sets up to idx
\* were presented and no other, no delete was tried for set idx or a later
\* one, and every file deleted before is still gone.
AbortedSession ==
    /\ shown = [j \in 1..idx |-> j]
    /\ \A k \in 1..Len(attempts) :
           /\ attempts[k].set < idx
           /\ attempts[k].ok => fs[attempts[k].path] = Absent

\* C4: abort at the choice prompt ends the session: no later set is
\* presented, no delete is attempted for this or a later set, and the
\* deletions made for the sets before stay.
C4_AbortIsTerminal ==
    [][/\ (pc = "choice" /\ choice' = "q") =>
              /\ pc' = "aborted"
              /\ UNCHANGED <<attempts, fs, shown, idx>>
       /\ pc' = "aborted" => AbortedSession'
       /\ pc = "aborted" => UNCHANGED <<pc, attempts, fs, shown, idx>>]_vars

\* C4 witness: the session was aborted at set 2 after a file of set 1 had
\* been deleted.
C4_Witness ==
    /\ pc = "aborted"
    /\ idx = 2
    /\ \E k \in 1..Len(attempts) : attempts[k].ok

\* C5: after yes, every file of the delete list gets its delete attempt,
\* whether the attempts before it failed or not, and then the next set is
\* next.
C5_FailureDoesNotStopDeletes ==
    [][/\ (pc = "deleting" /\ delPos <= Len(files_to_delete)) =>
              /\ pc' = "deleting"
              /\ delPos' = delPos + 1
              /\ Len(attempts') = Len(attempts) + 1
              /\ attempts'[Len(attempts')].path = files_to_delete[delPos]
              /\ attempts'[Len(attempts')].set = idx
       /\ DeleteListDone =>
              /\ PathsAttempted(attempts, idx) = files_to_delete
              /\ attempts' = attempts
              /\ NextSetOrEnd]_vars

\* C5 witness: a delete failed, the delete after it in the same list was
\* made all the same, and the workflow went on.
C5_Witness ==
    /\ pc \in {"present", "completed"}
    /\ \E k \in 1..(Len(attempts) - 1) :
           /\ ~attempts[k].ok
           /\ attempts[k + 1].set = attempts[k].set
           /\ attempts[k + 1].ok

\* An answer to the choice prompt that is no index of the set, nor skip, nor
\* abort.
InvalidChoice(c, members) ==
    /\ c \notin {"q", "s"}
    /\ \A i \in 1..Len(members) : c # ToString(i)

\* C6: an invalid answer to the choice prompt changes nothing: no delete, no
\* confirmation, the same set, and the same prompt again.
C6_InvalidInputAsksAgain ==
    [][(pc = "choice" /\ InvalidChoice(choice', duplicates[idx].files)) =>
           /\ pc' = "choice"
           /\ UNCHANGED <<idx, fs, attempts, shown, duplicates, files_to_delete,
                          confirm, delPos>>]_vars

\* C6 witness: an index out of range was typed for set 2 after a delete in
\* set 1, and the choice prompt of set 2 is up again.
C6_Witness ==
    /\ pc = "choice"
    /\ idx = 2
    /\ msg = "Invalid choice."
    /\ choice = ToString(Len(duplicates[idx].files) + 1)
    /\ attempts # <<>>

\* The tallies of a session: the os.remove calls that succeeded, the bytes
\* they freed and the calls that failed.
RECURSIVE Tally(_)
Tally(log) ==
    IF log = <<>> THEN [deleted |-> 0, bytes |-> 0, failures |-> 0]
    ELSE LET t == Tally(Tail(log))
             a == Head(log)
         IN IF a.ok
            THEN [t EXCEPT !.deleted = @ + 1, !.bytes = @ + Len(scanned[a.path].data)]
            ELSE [t EXCEPT !.failures = @ + 1]

\* A line that gives the three totals.
TotalsLine(t) ==
    "Deleted " \o ToString(t.deleted) \o " files, " \o ToString(t.bytes)
        \o " bytes, " \o ToString(t.failures) \o " failures"

SessionEnded == pc \in {"completed", "aborted"}

\* C16: when a session in which os.remove was called has ended, completed
\* or aborted, the last thing interactive_delete printed is the totals of
\* files deleted, bytes freed and failed deletes, equal to the tallies of the
\* os.remove calls made.
C16_FinalTotalsPrinted ==
    (SessionEnded /\ attempts # <<>>) => msg = TotalsLine(Tally(attempts))

\* A session has ended after a delete that succeeded and one that failed.
C16_Witness ==
    /\ SessionEnded
    /\ Tally(attempts).deleted > 0
    /\ Tally(attempts).failures > 0

\* C17: no step of interactive_delete changes the dict it was given: every
\* set keeps its members and their order through the whole session, files
\* removed from the filesystem included.
C17_DuplicatesNeverMutated ==
    [][duplicates' = duplicates]_vars

\* C17 witness: the session is over, a member of a set was removed from the
\* filesystem and is still a member of the set.
C17_Witness ==
    /\ SessionEnded
    /\ \E i \in 1..Len(attempts) :
           /\ attempts[i].ok
           /\ fs[attempts[i].path] = Absent
           /\ attempts[i].path \in Range(duplicates[attempts[i].set].files)

\* C19: when every choice prompt gets a valid input in the end, the session
\* ends, completed or aborted; all along the sets presented are the first
\* ones of the dict, each once and in dict order, and when the session is
\* completed they are all the sets.
C19_WorkflowTerminates ==
    /\ <>SessionEnded
    /\ [](shown = [i \in 1..Len(shown) |-> i])
    /\ [](Len(shown) <= Len(duplicates))
    /\ [](pc = "completed" => Len(shown) = Len(duplicates))

\* C19 witness: a session on two sets is completed and both were presented,
\* the first before the second.
C19_Witness ==
    /\ pc = "completed"
    /\ Len(duplicates) = 2
    /\ shown = <<1, 2>>

\* ---- find_duplicates and display_duplicates
\* The paths of one duplicate set, and of all of them.
Members(set) == Range(set.files)
AllMembers(dups) == UNION {Members(dups[i]) : i \in 1..Len(dups)}

\* The regular files of the tree as it was scanned, and their sizes then.
ScannedFiles == {p \in Paths : is_file(scanned, p)}
ScannedSize(p) == Len(scanned[p].data)
UniqueSize(p) ==
    \A q \in ScannedFiles \ {p} : ScannedSize(q) # ScannedSize(p)

\* C7: a file whose size no other scanned file has is in no duplicate set
\* that find_duplicates returns.
C7_UniqueSizeNotDuplicate ==
    pc = "returned" =>
        \A p \in ScannedFiles : UniqueSize(p) => p \notin AllMembers(duplicates)

\* C7 witness: find_duplicates has returned a duplicate set for a tree that
\* also holds a file of unique size.
C7_Witness ==
    /\ pc = "returned"
    /\ duplicates # <<>>
    /\ \E p \in ScannedFiles :
           /\ UniqueSize(p)
           /\ scanned[p].readable
           /\ ScannedSize(p) >= args.min_size

\* C8: every returned duplicate set has at least 2 members, and its members
\* have the same size, the digest the set is keyed by, and the same content.
C8_SetsAreSound ==
    pc = "returned" =>
        \A i \in 1..Len(duplicates) :
            /\ Len(duplicates[i].files) >= 2
            /\ \A p \in Members(duplicates[i]) :
                   /\ is_file(scanned, p)
                   /\ get_file_hash(scanned, p, args.hash) = duplicates[i].key
                   /\ \A q \in Members(duplicates[i]) :
                          /\ ScannedSize(p) = ScannedSize(q)
                          /\ scanned[p].data = scanned[q].data

\* C8 witness: a duplicate set was returned while a readable file of the
\* same size and other content was hashed with it and kept out of it.
C8_Witness ==
    /\ pc = "returned"
    /\ \E i \in 1..Len(duplicates) :
           \E p \in Members(duplicates[i]) :
               \E q \in ScannedFiles \ Members(duplicates[i]) :
                   /\ scanned[q].readable
                   /\ ScannedSize(q) = ScannedSize(p)
                   /\ ScannedSize(q) >= args.min_size
                   /\ scanned[q].data # scanned[p].data

\* Two results hold the same duplicate sets: the same digests, each with the
\* same members, whatever the order.
SameSets(a, b) ==
    /\ Keys(a) = Keys(b)
    /\ \A i \in 1..Len(a) : Members(a[i]) = Members(b[Lookup(b, a[i].key)])

\* C10: a second call of find_duplicates with the same arguments on the
\* unmodified tree returns the same duplicate sets as the call before it.
C10_Idempotent ==
    (pc = "returned" /\ prev.called) => SameSets(prev.result, duplicates)

\* C10 witness: the second call went through the tree in another order and
\* returned the members of a set in another order than the first.
C10_Witness ==
    /\ pc = "returned"
    /\ prev.called
    /\ fs = scanned
    /\ duplicates # <<>>
    /\ duplicates # prev.result

\* The report's total as the claim defines it: per set, the size its members
\* had when they were scanned, times the member count less one.
RECURSIVE WastedAtScan(_)
WastedAtScan(dups) ==
    IF dups = <<>> THEN 0
    ELSE ScannedSize(Head(dups).files[1]) * (Len(Head(dups).files) - 1)
         + WastedAtScan(Tail(dups))

\* C9: the total wasted bytes display_duplicates reports is the sum over the
\* sets of (size of the members when scanned) * (member count - 1).
C9_WastedIsScanSizes ==
    (pc = "displayed" /\ report.printed = "totals") =>
        report.total_wasted = WastedAtScan(duplicates)

\* C9 on a tree no other process touched between the scan and the report.
C9_WastedOnUnchangedTree ==
    (pc = "displayed" /\ report.printed = "totals" /\ fs = scanned) =>
        report.total_wasted = WastedAtScan(duplicates)

\* Three identical files of 2 bytes were reported as 4 wasted bytes.
C9_Witness ==
    /\ pc = "displayed"
    /\ fs = scanned
    /\ Len(duplicates) = 1
    /\ Len(duplicates[1].files) = 3
    /\ ScannedSize(duplicates[1].files[1]) = 2
    /\ report.total_wasted = 4

\* The paths find_duplicates called stat and get_file_hash on, in call order.
RECURSIVE PathsOf(_, _)
PathsOf(log, op) ==
    IF log = <<>> THEN <<>>
    ELSE (IF Head(log).op = op THEN <<Head(log).path>> ELSE <<>>)
         \o PathsOf(Tail(log), op)
Stats == PathsOf(io, "stat")
Reads == PathsOf(io, "read")

\* The files the first pass put in size_map, and those of them the second
\* pass hashes: the ones whose size another file of size_map has.
Eligible(p) == is_file(scanned, p) /\ ScannedSize(p) >= args.min_size
Hashable(p) ==
    /\ Eligible(p)
    /\ \E q \in Paths \ {p} : Eligible(q) /\ ScannedSize(q) = ScannedSize(p)

\* The hashable files with the content of p whose read succeeds.
Survivors(p) ==
    {q \in Paths : /\ Hashable(q)
                   /\ scanned[q].readable
                   /\ scanned[q].data = scanned[p].data}

\* C11: a file whose read fails is left out of hash_map and the files after
\* it are still hashed; of the hashable files, those whose read fails are in
\* no returned set, and a readable one is in a returned set exactly when
\* another readable hashable file has its content, so that a group with one
\* survivor gives no set.
C11_ReadFailureLeavesFileOut ==
    /\ pc = "hash_pass" =>
           \A i \in 1..(hashPos - 1) :
               LET p == HashQueue(size_map)[i]
               IN p \in AllMembers(hash_map) <=> scanned[p].readable
    /\ (pc = "returned" /\ args.directory = "dir") =>
           \A p \in Paths :
               Hashable(p) =>
                   (p \in AllMembers(duplicates)
                        <=> (scanned[p].readable /\ Cardinality(Survivors(p)) >= 2))

\* C11 witness: the hash pass is over for a size bucket of two files; the
\* read of the first failed, the second was hashed after it and is alone in
\* hash_map, and no set is returned.
C11_Witness ==
    /\ pc = "returned"
    /\ duplicates = <<>>
    /\ msg = "Error reading"
    /\ Len(Reads) = 2
    /\ LET p == Reads[1]
           q == Reads[2]
       IN /\ ~scanned[p].readable
          /\ scanned[q].readable
          /\ ScannedSize(p) = ScannedSize(q)

\* find_duplicates as a function of the tree, the glob order and the
\* arguments: the two loops run to their end and the filter.
RECURSIVE SizePass(_, _, _, _)
SizePass(disk, order, n, min_size) ==
    IF n = 0 THEN <<>>
    ELSE SizePassStep(disk, SizePass(disk, order, n - 1, min_size), order[n], min_size)

RECURSIVE HashPass(_, _, _, _)
HashPass(disk, queue, n, hash_algo) ==
    IF n = 0 THEN <<>>
    ELSE HashPassStep(disk, HashPass(disk, queue, n - 1, hash_algo), queue[n], hash_algo)

FindDuplicatesResult(disk, order, a) ==
    LET queue == HashQueue(SizePass(disk, order, Len(order), a.min_size))
    IN FilterDuplicates(HashPass(disk, queue, Len(queue), a.hash))

\* The number of get_file_hash calls that return None in such a run.
ReadFailuresOf(disk, order, a) ==
    LET queue == HashQueue(SizePass(disk, order, Len(order), a.min_size))
    IN Cardinality({i \in 1..Len(queue) : get_file_hash(disk, queue[i], a.hash) = None})

\* The number of get_file_hash calls that returned None in the run made.
ReadFailures ==
    Cardinality({i \in 1..Len(Reads) : get_file_hash(scanned, Reads[i], args.hash) = None})

\* The function and the run agree on what is returned and on what failed.
FunctionIsTheRun ==
    (pc = "returned" /\ args.directory = "dir") =>
        /\ duplicates = FindDuplicatesResult(scanned, listing, args)
        /\ ReadFailures = ReadFailuresOf(scanned, listing, args)

\* C12: the caller of find_duplicates can observe the number of read
\* failures: what it is returned determines that number, so that no tree
\* with another number of failures gives the same return value (a file whose
\* read failed is told from a unique file).
C12_FailureCountObservable ==
    (pc = "returned" /\ args.directory = "dir") =>
        \A t \in [Paths -> Entries] :
            FindDuplicatesResult(t, listing, args) = duplicates
                => ReadFailuresOf(t, listing, args) = ReadFailures

\* The entry at path p is put in no size bucket, not hashed and in no set.
LeftOut(p) ==
    /\ p \notin AllMembers(size_map)
    /\ p \notin Range(Reads)
    /\ p \notin AllMembers(duplicates)

\* C14: the scan leaves out every directory and every entry whose name
\* begins with '.': none is put in a size bucket, hashed or returned in a set.
C14_NoDirectoryNoHidden ==
    \A p \in Paths : (scanned[p].kind = "dir" \/ p \in hidden) => LeftOut(p)

\* C14 for the directories alone.
C14_NoDirectory ==
    \A p \in Paths : scanned[p].kind = "dir" => LeftOut(p)

\* The first loop has looked at path p.
Visited(p) ==
    /\ pc \in {"size_pass", "hash_pass"}
    /\ \E i \in 1..(scanPos - 1) : listing[i] = p

\* C15: a file smaller than min_size is put in no size bucket, never hashed
\* and in no returned set; a file of min_size or more, min_size itself
\* included, is put in its size bucket, and two such readable files of the
\* same content are returned in a set.
C15_BelowMinSizeExcluded ==
    \A p \in ScannedFiles :
        /\ ScannedSize(p) < args.min_size => LeftOut(p)
        /\ (ScannedSize(p) >= args.min_size /\ Visited(p))
               => p \in AllMembers(size_map)
        /\ (pc = "returned" /\ args.directory = "dir"
                /\ ScannedSize(p) = args.min_size /\ scanned[p].readable)
               => \A q \in ScannedFiles \ {p} :
                      (scanned[q] = scanned[p]) => {p, q} \subseteq AllMembers(duplicates)

\* C15 witness: with min_size 2, two identical files of 1 byte were left out
\* and two identical files of 2 bytes were returned as a set.
C15_Witness ==
    /\ pc = "returned"
    /\ args.min_size = 2
    /\ \E p, q \in ScannedFiles :
           /\ p # q
           /\ scanned[p] = scanned[q]
           /\ scanned[p].readable
           /\ ScannedSize(p) = 1
           /\ {p, q} \cap Range(Stats) = {p, q}
           /\ {p, q} \cap Range(Reads) = {}
    /\ \E i \in 1..Len(duplicates) :
           \A p \in Members(duplicates[i]) : ScannedSize(p) = args.min_size

\* C18: get_file_hash is called only on files whose size another file of
\* size_map has, on no file twice, and on no file before the first loop has
\* stat'ed every regular file: no stat call follows a read.
C18_HashOnlyPossibleDuplicates ==
    /\ \A i \in 1..Len(Reads) : Hashable(Reads[i])
    /\ \A i, j \in 1..Len(Reads) : Reads[i] = Reads[j] => i = j
    /\ pc = "size_pass" => Reads = <<>>
    /\ Reads # <<>> => Range(Stats) = ScannedFiles
    /\ \A i, j \in 1..Len(io) : (i < j /\ io[i].op = "read") => io[j].op = "read"

\* C18 witness: find_duplicates has returned after hashing some files and
\* never read a readable file of a size no other file has.
C18_Witness ==
    /\ pc = "returned"
    /\ Reads # <<>>
    /\ \E p \in ScannedFiles :
           /\ UniqueSize(p)
           /\ Eligible(p)
           /\ scanned[p].readable
           /\ p \in Range(Stats)
           /\ p \notin Range(Reads)

\* Which files a result groups together, and which files of the scanned tree
\* belong together: the hashable readable files of one content, when there
\* are two or more of them.
Partition(dups) == {Members(dups[i]) : i \in 1..Len(dups)}
ContentPartition ==
    {Survivors(p) : p \in {q \in Paths : /\ Hashable(q)
                                         /\ scanned[q].readable
                                         /\ Cardinality(Survivors(q)) >= 2}}

\* C20: whatever the order in which the glob yields the files and the second
\* loop hashes them, find_duplicates returns the same grouping of the files,
\* the one their contents give, each group once.
C20_PartitionOrderIndependent ==
    (pc = "returned" /\ args.directory = "dir") =>
        /\ Partition(duplicates) = ContentPartition
        /\ Len(duplicates) = Cardinality(ContentPartition)
        /\ prev.called => Partition(prev.result) = Partition(duplicates)

\* C20 witness: the second call went through the tree in another order and
\* returned two sets in the other order than the first call.
C20_Witness ==
    /\ pc = "returned"
    /\ prev.called
    /\ listing # Identity
    /\ Len(duplicates) = 2
    /\ duplicates[1].key = prev.result[2].key
    /\ duplicates[2].key = prev.result[1].key

\* ---- main
\* The places of interactive_delete.
InWorkflow ==
    pc \in {"interactive_delete", "present", "choice", "confirm", "deleting",
            "completed", "aborted"}

\* C13: when the root does not exist or is not a directory, no file is
\* stat'ed or hashed, no report is printed, not even the one that says no
\* duplicates were found, and interactive_delete is never started.
C13_InvalidRootNoReport ==
    args.directory # "dir" =>
        /\ io = <<>>
        /\ report = NoReport
        /\ ~InWorkflow

\* C13 without the report: on an invalid root nothing is stat'ed or hashed,
\* find_duplicates returns {} and interactive_delete is never started.
C13_InvalidRootNoScanNoWorkflow ==
    args.directory # "dir" =>
        /\ io = <<>>
        /\ duplicates = <<>>
        /\ ~InWorkflow

\* main has ended on an invalid root with --delete given.
C13_Witness ==
    /\ pc = "exit"
    /\ args.directory = "missing"
    /\ args.delete
    /\ report.printed = "no duplicates"

\* ---- find_duplicates followed by interactive_delete
\* The paths os.remove was called on in the session, whatever the set.
Attempted == {attempts[i].path : i \in 1..Len(attempts)}

\* C21: the sets find_duplicates returned share no path and hold no path
\* twice; in the session that follows no path is the target of two os.remove
\* calls, and every set has a member os.remove was never called on, which is
\* still on the filesystem as it was scanned: a copy of every content is left.
C21_OneCopyAlwaysKept ==
    /\ \A i, j \in 1..Len(duplicates) :
           i # j => Members(duplicates[i]) \cap Members(duplicates[j]) = {}
    /\ \A i \in 1..Len(duplicates) :
           \A m, n \in 1..Len(duplicates[i].files) :
               duplicates[i].files[m] = duplicates[i].files[n] => m = n
    /\ \A i, j \in 1..Len(attempts) : attempts[i].path = attempts[j].path => i = j
    /\ Attempted \subseteq AllMembers(duplicates)
    /\ \A i \in 1..Len(duplicates) :
           \E p \in Members(duplicates[i]) :
               /\ p \notin Attempted
               /\ fs[p] = scanned[p]

\* C21 witness: main has scanned a tree with two duplicate sets and the
\* session is completed with every file but one of each set removed.
C21_Witness ==
    /\ pc = "completed"
    /\ io # <<>>
    /\ Len(duplicates) = 2
    /\ Len(attempts) = TotalFiles(duplicates) - 2
    /\ \A i \in 1..Len(attempts) : attempts[i].ok
    /\ \A i \in 1..Len(duplicates) :
           Cardinality({p \in Members(duplicates[i]) : fs[p] # Absent}) = 1

====
